---- MODULE Spec2Model ----
(***************************************************************************)
(* State-machine model of src/bot.py: a Telegram weather bot.              *)
(*                                                                         *)
(* The module-level start-up code (secret check, cache installation,       *)
(* token validation), the main() polling loop and the three message        *)
(* handlers are modelled.  The HTTP cache is requests_cache as configured  *)
(* by install_cache(expire_after=CACHE_EXPIRE, stale_if_error=True).       *)
(* Handlers are coroutines on one event loop: they interleave only at      *)
(* their `await` points; requests.get is a plain (blocking) call.          *)
(***************************************************************************)
EXTENDS Integers, Sequences, FiniteSets, TLC

\* ------------------------------------------------------------------ bounds
MaxMsgs == 2        \* inbound messages per run
MaxTime == 3        \* clock range 0..MaxTime

\* --------------------------------------------------------------- constants
\* CACHE_EXPIRE = int(os.getenv('CACHE_EXPIRE', '600')): the environment sets
\* it; the model runs with a TTL of two clock units.
CACHE_EXPIRE == 2
\* asyncio.sleep(10) in main()
SleepSeconds == 10

\* Two handler frames: at most two handlers are in progress at a time, which
\* is what it takes for one handler to run while another is suspended.
Msgs == {1, 2}
NoOne == 0

\* --------------------------------------------------------------- text
\* Message texts are sequences of characters.

\* str.lower() on one character
LowerChar(c) ==
  CASE c = "S" -> "s" [] c = "T" -> "t" [] c = "A" -> "a" [] c = "R" -> "r"
    [] c = "H" -> "h" [] c = "E" -> "e" [] c = "L" -> "l" [] c = "P" -> "p"
    [] c = "O" -> "o" [] OTHER -> c

\* str.lower()
Lower(s) == [i \in 1..Len(s) |-> LowerChar(s[i])]

IsSpace(c) == c = " "

RECURSIVE LStrip(_)
LStrip(s) == IF s # <<>> /\ IsSpace(Head(s)) THEN LStrip(Tail(s)) ELSE s

RECURSIVE RStrip(_)
RStrip(s) ==
  IF s # <<>> /\ IsSpace(s[Len(s)]) THEN RStrip(SubSeq(s, 1, Len(s) - 1)) ELSE s

\* str.strip()
Strip(s) == RStrip(LStrip(s))

\* the first whitespace-delimited word of s
RECURSIVE FirstWord(_)
FirstWord(s) ==
  IF s = <<>> \/ IsSpace(Head(s)) THEN <<>> ELSE <<Head(s)>> \o FirstWord(Tail(s))

START == <<"s", "t", "a", "r", "t">>
HELP == <<"h", "e", "l", "p">>

\* aiogram Command filter: the text starts with the prefix "/" and its first
\* word, without the prefix, is the command (case-sensitive)
IsCommand(text, cmd) ==
  /\ text # <<>>
  /\ Head(text) = "/"
  /\ FirstWord(Tail(text)) = cmd

\* The inbound messages of a run.  <<>> is a message without text (a photo).
Texts ==
  { <<"/", "s", "t", "a", "r", "t">>,
    <<"/", "h", "e", "l", "p">>,
    <<"s", "t", "a", "r", "t">>,
    <<" ", "H", "e", "l", "p", " ">>,
    <<"O", "s", "l", "o">>,
    <<"o", "s", "l", "o">>,
    <<>> }

IsReservedExact(city) == city \in {START, HELP}
\* line 115: city.lower() in ['start', 'help']
IsReserved(city) == Lower(city) \in {START, HELP}

\* line 113: city = message.text.strip()
City(text) == Strip(text)

\* line 122: the request URL embeds the city as typed; every other part of
\* the URL is fixed, so the city stands for the URL
Url(city) == city

Cities == {City(t) : t \in Texts}
Urls == {Url(c) : c \in Cities}

\* --------------------------------------------------------------- replies
Reply(kind, detail, cached) == [kind |-> kind, detail |-> detail, cached |-> cached]
NoReply == Reply("none", "", FALSE)
start_txt == Reply("start", "", FALSE)
help_txt == Reply("help", "", FALSE)
\* line 119
SearchingText == Reply("searching", "", FALSE)
\* line 174
NetworkErrorText == Reply("network", "", FALSE)
\* line 177
UnexpectedErrorText == Reply("unexpected", "", FALSE)
\* lines 127-129: "Город не найден!" plus the upstream message if present
NotFoundText(hasMessage) ==
  Reply("notfound", IF hasMessage THEN "message" ELSE "", FALSE)
\* lines 152-169: the weather summary with its cache status
WeatherText(data, from_cache) == Reply("weather", data, from_cache)

\* --------------------------------------------------------------- state
VARIABLES
  env,             \* the environment: BOT_TOKEN and WEATHER_API_KEY
  proc,            \* where the process is: a start-up stage, "polling",
                   \* "sleeping" or "exited"
  cacheInstalled,  \* requests_cache.install_cache has run
  tokenOk,         \* what check_bot_token returned: "unchecked", "true", "false"
  pollsAhead,      \* calls of dp.start_polling, minus the exceptions that
                   \* escaped it
  unlogged,        \* exceptions that escaped dp.start_polling, minus the
                   \* logger.error calls of main()
  pause,           \* seconds of the asyncio.sleep main() is in (0: in none)
  loop,            \* the handler that holds the event loop in a blocking call
  now,             \* the clock
  store,           \* the cache store: URL -> entry
  delivered,       \* inbound messages received so far
  msg,             \* per handler in progress: its message, position and effects
  lastDone,        \* the handler that ended in the step just taken, if one
                   \* did: its message, how it ended and what it did
  lastFetch        \* the requests.get call of the step just taken, if it
                   \* made one: what the call saw and what it did

vars ==
  <<env, proc, cacheInstalled, tokenOk, pollsAhead, unlogged, pause, loop, now,
    store, delivered, msg, lastDone, lastFetch>>

\* --------------------------------------------------------------- network
Response(status, body) == [status |-> status, body |-> body]
\* what the upstream answers: a status and a body.  "weather" is a complete
\* weather document (the body of every 200 of the weather API), "message" is
\* {"message": ...}, "empty" is {}, "html" is not JSON.
Responses ==
  { Response(200, "weather"),
    Response(404, "message"), Response(404, "empty"), Response(502, "html") }
\* the network is unreachable or times out: requests raises RequestException
Unreachable == Response(0, "")
NetOutcomes == Responses \cup {Unreachable}
\* no request was sent
NotAsked == Response(-1, "")

NoEntry == [status |-> 0, body |-> "", at |-> -1]
Entry(r, at) == [status |-> r.status, body |-> r.body, at |-> at]

\* --------------------------------------------------------------- cache
\* line 33: expire_after=CACHE_EXPIRE
ExpireAfter == CACHE_EXPIRE
StaleIfErrorOff == FALSE
\* line 34: stale_if_error=True
StaleIfError == TRUE
\* requests_cache stores responses with an allowable status only (default 200)
Allowable(status) == status = 200

IsExpiredLate(e) == now - e.at > ExpireAfter
IsExpiredEarly(e) == now - e.at >= ExpireAfter - 1
\* an entry is expired once its age reaches expire_after
IsExpired(e) == now - e.at >= ExpireAfter

FetchResult(raised, r, from_cache, wire, st) ==
  [raised |-> raised, status |-> r.status, body |-> r.body,
   from_cache |-> from_cache, wire |-> wire,
   calls |-> IF wire = NotAsked THEN 0 ELSE 1, store |-> st]

\* requests.get(url) through the installed cache (lines 31-35, 123), `net`
\* being what the network does if it is asked
CacheGet(url, net) ==
  LET e == store[url] IN
  IF e # NoEntry /\ ~IsExpired(e)
  THEN \* a fresh entry: served from the cache, no request is sent
       FetchResult(FALSE, e, TRUE, NotAsked, store)
  ELSE IF net # Unreachable /\ Allowable(net.status)
  THEN \* the live response is stored and returned
       FetchResult(FALSE, net, FALSE, net, [store EXCEPT ![url] = Entry(net, now)])
  ELSE IF e # NoEntry /\ StaleIfError
  THEN \* the request failed (exception or error status): the stale entry is served
       FetchResult(FALSE, e, TRUE, net, store)
  ELSE IF net = Unreachable
  THEN \* nothing stored: the RequestException propagates
       FetchResult(TRUE, net, FALSE, net, store)
  ELSE \* an error status and nothing to fall back on: returned, not stored
       FetchResult(FALSE, net, FALSE, net, store)

\* --------------------------------------------------------------- messages
NoMsg ==
  [text |-> <<>>, handler |-> "none", pc |-> "idle", branch |-> "none",
   pending |-> NoReply, shown |-> NoReply, sends |-> 0, edits |-> 0,
   attempts |-> 0]

NoFetch ==
  [m |-> NoOne, prev |-> NoEntry, wire |-> NotAsked, raised |-> FALSE,
   status |-> 0, body |-> "", from_cache |-> FALSE, calls |-> 0]

\* --------------------------------------------------------------- start-up
EnvValues == [BOT_TOKEN : {"unset", "empty", "bad", "good"},
              WEATHER_API_KEY : {"unset", "empty", "set"}]

\* install_cache('weather_cache') opens a store that outlives the process:
\* it is empty on the first run and holds the entries of earlier runs later
EmptyStore == [u \in Urls |-> NoEntry]
InitStores ==
  { EmptyStore,
    [EmptyStore EXCEPT ![Url(<<"O", "s", "l", "o">>)] =
       Entry(Response(200, "weather"), 0)] }

Init ==
  /\ env \in EnvValues
  /\ proc = "check_secrets"
  /\ cacheInstalled = FALSE
  /\ tokenOk = "unchecked"
  /\ pollsAhead = 0
  /\ unlogged = 0
  /\ pause = 0
  /\ loop = NoOne
  /\ now = 0
  /\ store \in InitStores
  /\ delivered = 0
  /\ msg = [m \in Msgs |-> NoMsg]
  /\ lastDone = NoMsg
  /\ lastFetch = NoFetch

\* nothing ended and nothing was fetched in this step
Quiet == lastDone' = NoMsg /\ lastFetch' = NoFetch

\* `not x` for a value of os.getenv: None or the empty string
Falsy(v) == v \in {"unset", "empty"}

MissingSecretsBoth == Falsy(env.BOT_TOKEN) /\ Falsy(env.WEATHER_API_KEY)
\* line 25: not BOT_TOKEN or not WEATHER_API_KEY
MissingSecrets == Falsy(env.BOT_TOKEN) \/ Falsy(env.WEATHER_API_KEY)

\* lines 25-27
CheckSecrets ==
  /\ proc = "check_secrets"
  /\ proc' = IF MissingSecrets THEN "exited" ELSE "install_cache"
  /\ Quiet
  /\ UNCHANGED <<env, cacheInstalled, tokenOk, pollsAhead, unlogged, pause,
                 loop, now, store, delivered, msg>>

\* lines 31-35
InstallCache ==
  /\ proc = "install_cache"
  /\ cacheInstalled' = TRUE
  /\ proc' = "check_token"
  /\ Quiet
  /\ UNCHANGED <<env, tokenOk, pollsAhead, unlogged, pause, loop, now, store,
                 delivered, msg>>

\* lines 66-68: exit(1) unless check_bot_token() returned True
AfterTokenCheck(ok) == IF ok THEN "main" ELSE "exited"

\* lines 52-68: get_me succeeds only with a good token, and can fail anyway
\* (network); any exception makes check_bot_token return False
CheckToken ==
  /\ proc = "check_token"
  /\ \E ok \in BOOLEAN :
       /\ ok => env.BOT_TOKEN = "good"
       /\ tokenOk' = IF ok THEN "true" ELSE "false"
       /\ proc' = AfterTokenCheck(ok)
  /\ Quiet
  /\ UNCHANGED <<env, cacheInstalled, pollsAhead, unlogged, pause, loop, now,
                 store, delivered, msg>>

\* --------------------------------------------------------------- main()
\* lines 180-185: the first call of dp.start_polling
StartPolling ==
  /\ proc = "main"
  /\ proc' = "polling"
  /\ pollsAhead' = pollsAhead + 1
  /\ Quiet
  /\ UNCHANGED <<env, cacheInstalled, tokenOk, unlogged, pause, loop, now,
                 store, delivered, msg>>

AfterPollingExceptionExit == "exited"
\* lines 186-188: the exception is caught and main() sleeps
AfterPollingException == "sleeping"

\* line 187: one logger.error call per exception caught
ErrorsLogged == 1

PauseSkipped == pause
\* line 188: asyncio.sleep(10), the same after every exception
Pause == SleepSeconds

\* lines 185-188: an exception escapes dp.start_polling
PollingRaises ==
  /\ proc = "polling"
  /\ loop = NoOne
  /\ pollsAhead' = pollsAhead - 1
  /\ unlogged' = unlogged + 1 - ErrorsLogged
  /\ proc' = AfterPollingException
  /\ pause' = Pause
  /\ Quiet
  /\ UNCHANGED <<env, cacheInstalled, tokenOk, loop, now, store, delivered, msg>>

\* lines 183-185, 188: the sleep ends and the loop calls dp.start_polling again
Wake ==
  /\ proc = "sleeping"
  /\ loop = NoOne
  /\ proc' = "polling"
  /\ pause' = 0
  /\ pollsAhead' = pollsAhead + 1
  /\ Quiet
  /\ UNCHANGED <<env, cacheInstalled, tokenOk, unlogged, loop, now, store,
                 delivered, msg>>

\* the clock advances
Tick ==
  /\ proc # "exited"
  /\ now < MaxTime
  /\ now' = now + 1
  /\ Quiet
  /\ UNCHANGED <<env, proc, cacheInstalled, tokenOk, pollsAhead, unlogged,
                 pause, loop, store, delivered, msg>>

\* --------------------------------------------------------------- dispatch
\* the process is past start-up and alive: its event loop runs
Running == proc \in {"polling", "sleeping"}

\* lines 98, 104, 110: the first handler whose filter matches, in the order
\* of registration; a message without text matches none
Handler(text) ==
  IF text = <<>> THEN "unhandled"
  ELSE IF IsCommand(text, START) THEN "start_handler"
  ELSE IF IsCommand(text, HELP) THEN "help_handler"
  ELSE "get_weather"

\* a handler ends, returning ("done") or raising ("raised"): its frame is
\* gone, and what it did is what lastDone records
Ends(m, how, last) ==
  /\ msg' = [msg EXCEPT ![m] = NoMsg]
  /\ lastDone' = [last EXCEPT !.pc = how, !.pending = NoReply]

\* The polling call receives a message and starts its handler, which runs to
\* its first await: lines 101, 107, 113-119
Deliver(m, text) ==
  /\ proc = "polling"
  /\ loop = NoOne
  /\ delivered < MaxMsgs
  /\ delivered' = delivered + 1
  /\ msg[m].pc = "idle"
  /\ \A k \in Msgs : k < m => msg[k].pc # "idle"
  /\ LET h == Handler(text)
         returns == \/ h = "unhandled"
                    \/ h = "get_weather" /\ IsReserved(City(text))
         first == CASE h = "start_handler" -> start_txt
                    [] h = "help_handler" -> help_txt
                    [] OTHER -> SearchingText
         started == [NoMsg EXCEPT !.text = text, !.handler = h,
                                  !.pc = "await_answer", !.pending = first]
     IN IF returns
        THEN Ends(m, "done", [started EXCEPT !.pending = NoReply])
        ELSE msg' = [msg EXCEPT ![m] = started] /\ lastDone' = NoMsg
  /\ lastFetch' = NoFetch
  /\ UNCHANGED <<env, proc, cacheInstalled, tokenOk, pollsAhead, unlogged,
                 pause, loop, now, store>>

\* lines 101, 107, 119: message.answer returns or raises.  start_handler and
\* help_handler are then done; get_weather goes on into requests.get, a
\* blocking call that keeps the event loop until it returns (line 123)
AnswerReturns(m, ok) ==
  /\ Running
  /\ loop = NoOne
  /\ msg[m].pc = "await_answer"
  /\ LET sent == [msg[m] EXCEPT !.shown = msg[m].pending, !.pending = NoReply,
                                 !.sends = @ + 1, !.pc = "fetching"]
     IN IF ~ok
        THEN Ends(m, "raised", msg[m]) /\ loop' = NoOne
        ELSE IF msg[m].handler = "get_weather"
        THEN msg' = [msg EXCEPT ![m] = sent] /\ lastDone' = NoMsg /\ loop' = m
        ELSE Ends(m, "done", sent) /\ loop' = NoOne
  /\ lastFetch' = NoFetch
  /\ UNCHANGED <<env, proc, cacheInstalled, tokenOk, pollsAhead, unlogged,
                 pause, now, store, delivered>>

\* lines 123-177: the except clause or branch the handler takes on a fetch
\* result.  response.json() on a body that is not JSON raises an exception
\* that is a RequestException in requests >= 2.27 and a plain ValueError before.
Branches(r) ==
  IF r.raised THEN {"network"}
  ELSE IF r.body = "html" THEN {"network", "unexpected"}
  ELSE IF r.status # 200 THEN {"notfound"}
  ELSE IF r.body = "weather" THEN {"weather"}
  ELSE {"unexpected"}

\* line 152: from_cache
CacheStatus(r) == r.from_cache

\* the text the branch passes to loading_msg.edit_text
EditText(branch, r) ==
  CASE branch = "network" -> NetworkErrorText
    [] branch = "unexpected" -> UnexpectedErrorText
    [] branch = "notfound" -> NotFoundText(r.body = "message")
    [] OTHER -> WeatherText(r.body, CacheStatus(r))

\* lines 123-177: requests.get returns or raises; the handler parses the
\* response, picks its reply and calls loading_msg.edit_text
FetchReturns(m, net) ==
  /\ Running
  /\ loop = m
  /\ msg[m].pc = "fetching"
  /\ LET url == Url(City(msg[m].text))
         r == CacheGet(url, net)
     IN /\ store' = r.store
        /\ lastFetch' =
             [m |-> m, prev |-> store[url], wire |-> r.wire,
              raised |-> r.raised, status |-> r.status, body |-> r.body,
              from_cache |-> r.from_cache, calls |-> r.calls]
        /\ \E b \in Branches(r) :
             msg' = [msg EXCEPT ![m] =
                       [@ EXCEPT !.pc = "await_edit", !.branch = b,
                                 !.pending = EditText(b, r),
                                 !.attempts = @ + 1]]
  /\ lastDone' = NoMsg
  /\ loop' = NoOne
  /\ UNCHANGED <<env, proc, cacheInstalled, tokenOk, pollsAhead, unlogged,
                 pause, now, delivered>>

CaughtAlways(branch) == TRUE
\* the edit_text calls of lines 130 and 171 are inside the try block, those of
\* lines 174 and 177 are in its except clauses
Caught(branch) == branch \in {"weather", "notfound"}

\* lines 130, 171, 174, 177: loading_msg.edit_text returns or raises.  Inside
\* the try block (lines 130, 171) the exception is caught by `except
\* Exception`, which edits again with the generic text (line 177); raised in
\* an except clause (lines 174, 177) it leaves the handler
EditReturns(m, ok) ==
  /\ Running
  /\ loop = NoOne
  /\ msg[m].pc = "await_edit"
  /\ IF ok
     THEN Ends(m, "done", [msg[m] EXCEPT !.shown = msg[m].pending, !.edits = @ + 1])
     ELSE IF Caught(msg[m].branch)
     THEN /\ msg' = [msg EXCEPT ![m] =
                       [@ EXCEPT !.branch = "unexpected",
                                 !.pending = UnexpectedErrorText,
                                 !.attempts = @ + 1]]
          /\ lastDone' = NoMsg
     ELSE Ends(m, "raised", msg[m])
  /\ lastFetch' = NoFetch
  /\ UNCHANGED <<env, proc, cacheInstalled, tokenOk, pollsAhead, unlogged,
                 pause, loop, now, store, delivered>>

\* --------------------------------------------------------------- system
Next ==
  \/ CheckSecrets
  \/ InstallCache
  \/ CheckToken
  \/ StartPolling
  \/ PollingRaises
  \/ Wake
  \/ Tick
  \/ \E m \in Msgs, text \in Texts : Deliver(m, text)
  \/ \E m \in Msgs, ok \in BOOLEAN : AnswerReturns(m, ok)
  \/ \E m \in Msgs, net \in NetOutcomes : FetchReturns(m, net)
  \/ \E m \in Msgs, ok \in BOOLEAN : EditReturns(m, ok)

Spec == Init /\ [][Next]_vars

\* asyncio.sleep(10) ends, and requests.get(url, timeout=10) returns or raises
\* within its timeout
FairSpec ==
  /\ Spec
  /\ WF_vars(Wake)
  /\ WF_vars(\E m \in Msgs, net \in NetOutcomes : FetchReturns(m, net))

\* =============================================================== claims
\* what the claims speak of, said without the operators of the model

\* both secrets are set and not empty
SecretsPresent ==
  /\ env.BOT_TOKEN \in {"bad", "good"}
  /\ env.WEATHER_API_KEY = "set"

\* the receive loop has been entered, or a handler has run
LoopEntered ==
  \/ proc \in {"main", "polling", "sleeping"}
  \/ pollsAhead # 0
  \/ delivered # 0
  \/ \E m \in Msgs : msg[m] # NoMsg
  \/ lastDone # NoMsg
  \/ lastFetch # NoFetch

\* C2: startup gating.  The receive loop is entered, and handlers run, only
\* after both secrets were present and check_bot_token returned True; with a
\* secret missing the process goes from the secret check straight to its exit
\* and installs no cache; when check_bot_token returned False it has exited
\* without entering the loop.
C2_StartupGating ==
  /\ LoopEntered => SecretsPresent /\ tokenOk = "true" /\ cacheInstalled
  /\ ~SecretsPresent =>
       /\ proc \in {"check_secrets", "exited"}
       /\ ~cacheInstalled
       /\ tokenOk = "unchecked"
  /\ tokenOk = "false" => proc = "exited" /\ ~LoopEntered

\* a run that ended at the secret check because the API key is empty
C2_Witness ==
  /\ proc = "exited"
  /\ env.BOT_TOKEN = "good"
  /\ env.WEATHER_API_KEY = "empty"

\* a step of a handler: a frame, an ended handler or a fetch changes
HandlerStep == msg' # msg \/ lastDone' # NoMsg \/ lastFetch' # NoFetch

C7_Counts ==
  /\ unlogged = 0
  /\ proc = "polling" => pollsAhead = 1 /\ pause = 0
  /\ proc = "sleeping" => pollsAhead = 0 /\ pause = 10

C7_ReceiveLoopRecovery ==
  /\ []C7_Counts
  /\ [][ /\ proc = "polling" /\ proc' # "polling" => proc' = "sleeping"
         /\ proc = "sleeping" /\ proc' # "sleeping" => proc' = "polling"
       ]_vars
  /\ (proc = "sleeping") ~> (proc = "polling")

\* an exception escaped the polling call while a handler was waiting for its
\* edit: it has been logged and main() is in its sleep
C7_Witness ==
  /\ proc = "sleeping"
  /\ pause = 10
  /\ pollsAhead = 0
  /\ unlogged = 0
  /\ \E m \in Msgs : msg[m].pc = "await_edit"

\* ---- the fetch of the step just taken
Fetched == lastFetch.m # NoOne
FetchedUrl == Url(City(msg[lastFetch.m].text))
\* the URL had an entry, and how old it was when the fetch was made
HadEntry == lastFetch.prev # NoEntry
Age == now - lastFetch.prev.at
\* the response the handler got is the entry the store had
ServedFromStore ==
  /\ ~lastFetch.raised
  /\ lastFetch.from_cache
  /\ lastFetch.status = lastFetch.prev.status
  /\ lastFetch.body = lastFetch.prev.body
  /\ store[FetchedUrl] = lastFetch.prev
\* the reply the handler is about to edit in
NextReply == msg[lastFetch.m].pending

\* C3: cache hit within the TTL.  A fetch of a URL whose entry is younger than
\* CACHE_EXPIRE sends no request and returns the stored response with
\* from_cache true, leaves the store as it was, and a weather summary built
\* from it carries the "cached" indicator - whatever the network would have
\* answered, however many fetches came before and whatever the other handler
\* is doing.
C3_CacheHit ==
  Fetched /\ HadEntry /\ Age < CACHE_EXPIRE =>
    /\ lastFetch.calls = 0
    /\ lastFetch.wire = NotAsked
    /\ ServedFromStore
    /\ lastFetch.body = "weather" => NextReply = WeatherText("weather", TRUE)

\* the second message of the run is served from the entry the first stored
\* one clock unit earlier
C3_Witness ==
  /\ Fetched /\ HadEntry
  /\ lastFetch.prev.at = 1
  /\ Age = 1
  /\ lastFetch.calls = 0
  /\ NextReply = WeatherText("weather", TRUE)
  /\ delivered = 2

C5_StaleIfError ==
  /\ Fetched /\ lastFetch.wire = Unreachable =>
       IF HadEntry
       THEN Age >= CACHE_EXPIRE /\ ServedFromStore
       ELSE /\ lastFetch.raised
            /\ ~lastFetch.from_cache
            /\ store[FetchedUrl] = NoEntry
            /\ msg[lastFetch.m].branch = "network"
            /\ NextReply = NetworkErrorText
  /\ lastDone.branch = "network" /\ lastDone.pc = "done" =>
       lastDone.shown = NetworkErrorText /\ lastDone.edits = 1

\* an entry older than CACHE_EXPIRE is served while the network is unreachable
C5_Witness ==
  /\ Fetched /\ HadEntry
  /\ lastFetch.wire = Unreachable
  /\ Age > CACHE_EXPIRE
  /\ NextReply = WeatherText("weather", TRUE)

\* ---- reserved words and commands, spelled out
SameLetter(c, l) ==
  \/ c = l
  \/ <<c, l>> \in { <<"S", "s">>, <<"T", "t">>, <<"A", "a">>, <<"R", "r">>,
                    <<"H", "h">>, <<"E", "e">>, <<"L", "l">>, <<"P", "p">> }
SameWord(w, word) ==
  /\ Len(w) = Len(word)
  /\ \A k \in 1..Len(word) : SameLetter(w[k], word[k])
\* "start" or "help" in any letter case, between any number of blanks
ReservedText(t) ==
  \E i, j \in 0..Len(t) :
    /\ i + j <= Len(t)
    /\ \A k \in 1..i : t[k] = " "
    /\ \A k \in (Len(t) - j + 1)..Len(t) : t[k] = " "
    /\ \/ SameWord(SubSeq(t, i + 1, Len(t) - j), START)
       \/ SameWord(SubSeq(t, i + 1, Len(t) - j), HELP)
SlashStart == <<"/", "s", "t", "a", "r", "t">>
SlashHelp == <<"/", "h", "e", "l", "p">>

\* a handler that neither sent nor edited nor was about to
Silent(f) ==
  /\ f.sends = 0 /\ f.edits = 0 /\ f.attempts = 0
  /\ f.shown = NoReply /\ f.pending = NoReply

\* what one command handler does: one answer with its own text, nothing else
AnswersWith(f, handler, text) ==
  /\ f.handler = handler
  /\ f.edits = 0 /\ f.attempts = 0 /\ f.branch = "none"
  /\ f.pc = "await_answer" => f.pending = text /\ f.sends = 0
  /\ f.pc = "done" => f.shown = text /\ f.sends = 1
  /\ f.pc = "raised" => f.shown = NoReply /\ f.sends = 0

\* C6: reserved words.  A message whose text is "start" or "help", in any
\* letter case and between blanks, is never in a handler frame past the
\* reserved-word check: its handler has returned in the step that received
\* it, having sent nothing, edited nothing and fetched nothing.  /start and
\* /help are handled by start_handler and help_handler alone, which answer
\* once with their text and neither fetch nor edit; no fetch is ever made for
\* a reserved word or a command.
C6_ReservedWords ==
  /\ \A m \in Msgs : msg[m] # NoMsg => ~ReservedText(msg[m].text)
  /\ ReservedText(lastDone.text) =>
       /\ lastDone.handler = "get_weather"
       /\ lastDone.pc = "done"
       /\ Silent(lastDone)
       /\ ~Fetched
  /\ \A f \in {msg[m] : m \in Msgs} \cup {lastDone} :
       /\ f.text = SlashStart => AnswersWith(f, "start_handler", start_txt)
       /\ f.text = SlashHelp => AnswersWith(f, "help_handler", help_txt)
  /\ Fetched =>
       /\ msg[lastFetch.m].handler = "get_weather"
       /\ ~ReservedText(msg[lastFetch.m].text)
       /\ msg[lastFetch.m].text \notin {SlashStart, SlashHelp}

\* " Help " has been received and its handler has returned
C6_Witness ==
  /\ lastDone.text = <<" ", "H", "e", "l", "p", " ">>
  /\ lastDone.pc = "done"
  /\ Silent(lastDone)

\* ---- an ended get_weather handler that was past the reserved-word check
EndedLookup ==
  /\ lastDone.handler = "get_weather"
  /\ ~ReservedText(lastDone.text)

\* C8 as written: on every path the placeholder is sent and edited exactly
\* once, so none is left unedited.
C8_Original ==
  EndedLookup => lastDone.sends = 1 /\ lastDone.edits = 1

\* C8, amended: the placeholder is sent before the fetch is made, no second
\* message is sent and the placeholder is edited at most once, after the
\* fetch; it is edited exactly once when the handler returns.  When edit_text
\* raises in the try block the handler makes one more attempt, with the
\* generic error text; when the placeholder send raises, or edit_text raises
\* in an except clause, the exception leaves the handler and the placeholder,
\* if sent, is left as it is.
C8_PlaceholderThenEdit ==
  /\ \A m \in Msgs :
       LET f == msg[m] IN
       /\ f.pc = "await_answer" => Silent([f EXCEPT !.pending = NoReply])
       /\ f.pc \in {"fetching", "await_edit"} /\ f.handler = "get_weather" =>
            f.sends = 1 /\ f.shown = SearchingText /\ f.edits = 0
       /\ f.pc = "fetching" => f.attempts = 0
       /\ f.pc = "await_edit" =>
            /\ f.attempts \in {1, 2}
            /\ f.attempts = 2 => f.pending = UnexpectedErrorText
  /\ Fetched =>
       /\ msg[lastFetch.m].sends = 1
       /\ msg[lastFetch.m].attempts = 1
       /\ msg[lastFetch.m].edits = 0
  /\ EndedLookup =>
       /\ lastDone.sends \in {0, 1}
       /\ lastDone.edits \in {0, 1}
       /\ lastDone.attempts \in {0, 1, 2}
       /\ lastDone.pc = "done" =>
            /\ lastDone.sends = 1 /\ lastDone.edits = 1
            /\ lastDone.shown.kind \in {"weather", "notfound", "network", "unexpected"}
       /\ lastDone.pc = "raised" =>
            /\ lastDone.edits = 0
            /\ lastDone.shown = IF lastDone.sends = 1 THEN SearchingText ELSE NoReply
            /\ lastDone.attempts >= 1 => lastDone.branch \in {"network", "unexpected"}

\* the edit of a weather summary raised, and the second edit, with the generic
\* error text, went through
C8_Witness ==
  /\ EndedLookup
  /\ lastDone.pc = "done"
  /\ lastDone.attempts = 2
  /\ lastDone.edits = 1
  /\ lastDone.shown = UnexpectedErrorText

\* C9: non-200 handling.  Whenever the upstream answers a fetch with a status
\* other than 200, whatever the body, the handler takes the not-found branch
\* and its reply is the not-found text, with the upstream message exactly when
\* the body has one.
C9_Non200IsNotFound ==
  Fetched /\ lastFetch.wire \in Responses /\ lastFetch.wire.status # 200 =>
    /\ msg[lastFetch.m].branch = "notfound"
    /\ NextReply = NotFoundText(lastFetch.wire.body = "message")

\* C10: cooperative suspension during the fetch.  While one handler is in
\* requests.get, the event loop can run the others: a handler whose
\* message.answer or edit_text call is pending can resume, and the polling
\* call can start the handler of a new message.
C10_LoopRunsDuringFetch ==
  \A m \in Msgs : msg[m].pc = "fetching" =>
    \A k \in Msgs \ {m} :
      /\ msg[k].pc = "await_answer" => ENABLED AnswerReturns(k, TRUE)
      /\ msg[k].pc = "await_edit" => ENABLED EditReturns(k, TRUE)
      /\ msg[k].pc = "idle" /\ proc = "polling" /\ delivered < MaxMsgs =>
           ENABLED Deliver(k, SlashStart)

====
